---- MODULE Spec2Model ----
(***************************************************************************)
(* VoxTube request router (routes file, src/unnamed/part_001).             *)
(*                                                                         *)
(* Request handlers run on one event loop: the code between two awaits of  *)
(* a handler is one atomic step, and the steps of different requests       *)
(* interleave at the awaits.  A program counter "x_y" of a request means   *)
(* "the call y has been made and its result is awaited"; the action taken  *)
(* at that counter is the arrival of the result followed by the handler's  *)
(* code up to its next await or its response.                              *)
(*                                                                         *)
(* memoryService (Session Store), cacheService (Cache Store), the queue    *)
(* and its worker, youtubeService and transcriptionService are not part of *)
(* the sources at hand; they are modelled from the specification.          *)
(***************************************************************************)
EXTENDS Integers, Sequences, FiniteSets, TLC

\* ------------------------------------------------------------------ bounds
\* number of requests that may be in flight at once
MaxInFlight == 2
\* number of requests over a whole run
MaxRequests == 3
\* number of jobs the queue accepts over a whole run
MaxJobs == 2
\* getUserMedia requests and recorded chunks of the browser client over a run
MaxCaptures == 2
MaxChunks == 2
\* config.MAX_QUESTIONS_PER_VIDEO (its value is set outside the sources)
MAX_QUESTIONS_PER_VIDEO == 2
\* config.MAX_CONTEXT_WINDOW_SECONDS (its value is set outside the sources)
MAX_CONTEXT_WINDOW_SECONDS == 2

\* ------------------------------------------------------------------ inputs
Videos == {"v1"}
Slots == 1..MaxInFlight
\* raw video references a client may send
Urls == {"https://youtu.be/v1", "https://www.youtube.com/watch?v=v1", "not-a-video"}
\* request fields that a schema checks with min(1): a good and an empty one
Texts == {"hi", ""}
SpeakerName == "alice"
\* pausedTime values a client may send (-1 fails the schema)
PausedTimes == {0, 2}
PausedInputs == PausedTimes \cup {-1}
\* the transcripts the transcription collaborator may deliver
Seg(s, e, t) == [start |-> s, end |-> e, text |-> t]
FullTranscript == << Seg(0, 2, "a"), Seg(2, 4, "b") >>
Transcripts == { << >>, FullTranscript }
\* the transcript of the short segment /instant-context downloads
SegmentTranscript == << Seg(1, 2, "a") >>
SamplePath == "sample.mp3"

\* ------------------------------------------------------------------- state
VARIABLES
    cache,        \* Cache Store: video -> entry
    session,      \* Session Store of the request-handling process
    req,          \* the requests in flight, one per slot
    nreq,         \* number of requests received so far
    lastResp,     \* the response sent last
    tmpFiles,     \* transient audio files on disk
    nextVoice,    \* id the cloning provider hands out next
    nextAgent,    \* id the agent provider hands out next
    cloneCalls,   \* video -> cloneVoice invocations made by request handlers
    agentCalls,   \* video -> createAgent invocations
    cacheHist,    \* video -> voiceIds the cache has held
    committed,    \* video -> a clone request has written its voiceId
    reached,      \* video -> turns that reached the quota check
    passed,       \* video -> turns that passed the quota check
    preReads,     \* video -> pre-increment counts read by passing turns
    quotaRejected,\* video -> turns answered 429
    bcCalls,      \* video -> /build-conversation turns that reached the quota check
    bcOk,         \* video -> /build-conversation turns answered 200
    jobs,         \* the queue: sequence of job records, index = job id
    vs            \* the VoiceStream object of the browser client

\* the bookkeeping of conversational turns
turnHist == << reached, passed, preReads, quotaRejected, bcCalls, bcOk >>

\* the state of the server
serverVars == << cache, session, req, nreq, lastResp, tmpFiles, nextVoice,
                 nextAgent, cloneCalls, agentCalls, cacheHist, committed,
                 turnHist, jobs >>

vars == << serverVars, vs >>

\* ------------------------------------------------------------ Cache Store
\* an absent field is 0 (voiceId) or "" (names and paths)
EmptyEntry == [voiceId |-> 0, speakerName |-> "", voiceSamplePath |-> ""]
EntryFields == {"voiceId", "speakerName", "voiceSamplePath"}

\* a partial entry is a function from the supplied fields to their values
AsPartial(entry) ==
    [f \in {g \in EntryFields : entry[g] # EmptyEntry[g]} |-> entry[f]]

\* cacheService.setVideoData: merge of the supplied fields into the entry
Merge(entry, partial) ==
    [f \in EntryFields |-> IF f \in DOMAIN partial THEN partial[f] ELSE entry[f]]

\* cacheService.getVoiceId
GetVoiceId(c, v) == c[v].voiceId

\* ---------------------------------------------------------- Session Store
\* (from: the transcript a cached window was computed from, kept for the
\* statement of properties only)
NoCtx == [has |-> FALSE, text |-> << >>, from |-> << >>]
EmptySession ==
    [exists |-> FALSE, hasTranscript |-> FALSE, transcript |-> << >>,
     voiceId |-> 0, agentId |-> 0, questionCount |-> 0,
     voiceSamplePath |-> "", speakerName |-> "",
     ctxCache |-> [p \in PausedTimes |-> NoCtx]]

\* memoryService.getQuestionCount
getQuestionCount(st, v) == st[v].questionCount

\* memoryService.incrementQuestionCount: atomic read-modify-write
incrementQuestionCount(st, v) ==
    [st EXCEPT ![v].exists = TRUE, ![v].questionCount = @ + 1]

\* memoryService.setAgentId
setAgentId(st, v, a) == [st EXCEPT ![v].exists = TRUE, ![v].agentId = a]

\* memoryService.setVoiceId followed by setVideoData({voiceId, speakerName})
setVoice(st, v, vid, name) ==
    [st EXCEPT ![v].exists = TRUE, ![v].voiceId = vid, ![v].speakerName = name]

\* memoryService.cacheContextWindow / getCachedContextWindow (exact match)
cacheContextWindow(st, v, p, text) ==
    [st EXCEPT ![v].exists = TRUE, ![v].ctxCache[p] = [has |-> TRUE, text |-> text,
                                                   from |-> st[v].transcript]]
getCachedContextWindow(st, v, p) == st[v].ctxCache[p].text

\* ------------------------------------------------------- pure collaborators
\* youtubeService.extractVideoId: "" when the reference names no video
extractVideoId(url) ==
    CASE url = "https://youtu.be/v1" -> "v1"
      [] url = "https://www.youtube.com/watch?v=v1" -> "v1"
      [] OTHER -> ""

RECURSIVE JoinText(_)
JoinText(segs) ==
    IF segs = << >> THEN << >> ELSE << Head(segs).text >> \o JoinText(Tail(segs))

\* transcriptionService.getContextWindow: the segments lying within
\* [pausedTime - maxWindow, pausedTime], texts joined in order; empty text
\* for an empty transcript
getContextWindow(transcript, pausedTime, maxWindow) ==
    JoinText(SelectSeq(transcript,
        LAMBDA s : s.start >= pausedTime - maxWindow /\ s.end <= pausedTime))

\* getContextWindowForVideo: [found, text]
getContextWindowForVideo(st, v) ==
    IF ~st[v].hasTranscript THEN [found |-> FALSE, text |-> << >>]
    ELSE IF Len(st[v].transcript) = 0 THEN [found |-> TRUE, text |-> << >>]
    ELSE [found |-> TRUE,
          text |-> getContextWindow(st[v].transcript,
                      st[v].transcript[(Len(st[v].transcript) \div 2) + 1].start,
                      MAX_CONTEXT_WINDOW_SECONDS)]

\* the quota check with the comparison off by one
QuotaExceeded_OffByOne(questionCount) == questionCount > MAX_QUESTIONS_PER_VIDEO

\* the quota check with the comparison inverted
QuotaExceeded_Inverted(questionCount) == questionCount < MAX_QUESTIONS_PER_VIDEO

\* the quota check of /build-conversation and /stream-conversation
QuotaExceeded(questionCount) == questionCount >= MAX_QUESTIONS_PER_VIDEO

\* ------------------------------------------------------------- requests
Idle == [pc |-> "idle", kind |-> "", vid |-> "", voiceId |-> 0,
         cached |-> EmptyEntry, ctx |-> << >>, afterWrite |-> FALSE]

NoResp == [n |-> 0, kind |-> "", vid |-> "", status |-> 0, voiceId |-> 0,
           agentId |-> 0, ctx |-> << >>, hit |-> FALSE, afterWrite |-> FALSE,
           raced |-> FALSE, jobId |-> 0, state |-> "", returnValue |-> ""]

\* a response of a handler; n numbers the responses in the order they are sent
Resp(kind, vid, status) ==
    [NoResp EXCEPT !.n = lastResp.n + 1, !.kind = kind, !.vid = vid,
                   !.status = status]

\* a new request takes the first free slot (slots carry no meaning of their own)
CanStart(s) ==
    /\ req[s].pc = "idle"
    /\ nreq < MaxRequests
    /\ \A t \in Slots : t < s => req[t].pc # "idle"

\* the VoiceStream object as its constructor leaves it.  websocket is the
\* readyState of this.websocket ("none": no socket yet); stream and
\* mediaRecorder name the capture they refer to (0: null).  Of the browser:
\* pendingGum counts the getUserMedia requests not yet settled, liveStreams
\* holds the captures whose tracks are not stopped, recorders the
\* MediaRecorders that are recording, reads counts the FileReader reads not
\* yet loaded.  captures, chunks and audioSent count the getUserMedia
\* requests made, the chunks recorded and the audio messages sent.
NewVoiceStream ==
    [websocket |-> "none", muted |-> FALSE, isRecording |-> FALSE,
     stream |-> 0, mediaRecorder |-> 0,
     pendingGum |-> 0, liveStreams |-> {}, recorders |-> {}, reads |-> 0,
     captures |-> 0, chunks |-> 0, audioSent |-> 0]

Init ==
    /\ vs = NewVoiceStream
    /\ cache = [v \in Videos |-> EmptyEntry]
    /\ session = [v \in Videos |-> EmptySession]
    /\ req = [s \in Slots |-> Idle]
    /\ nreq = 0
    /\ lastResp = NoResp
    /\ tmpFiles = {}
    /\ nextVoice = 1
    /\ nextAgent = 1
    /\ cloneCalls = [v \in Videos |-> 0]
    /\ agentCalls = [v \in Videos |-> 0]
    /\ cacheHist = [v \in Videos |-> {}]
    /\ committed = [v \in Videos |-> FALSE]
    /\ reached = [v \in Videos |-> 0]
    /\ passed = [v \in Videos |-> 0]
    /\ preReads = [v \in Videos |-> {}]
    /\ quotaRejected = [v \in Videos |-> 0]
    /\ bcCalls = [v \in Videos |-> 0]
    /\ bcOk = [v \in Videos |-> 0]
    /\ jobs = << >>

\* a handler that runs without awaiting: the request is answered in the step
\* that receives it
AnswerNow(resp) ==
    /\ lastResp' = resp
    /\ nreq' = nreq + 1
    /\ UNCHANGED req

\* a handler that awaits: the request occupies slot s
Suspend(s, r) ==
    /\ req' = [req EXCEPT ![s] = r]
    /\ nreq' = nreq + 1
    /\ UNCHANGED lastResp

\* a suspended handler goes on to its next await
Goto(s, r) == req' = [req EXCEPT ![s] = r] /\ UNCHANGED << lastResp, nreq >>

\* a suspended handler answers and ends
Answer(s, resp) ==
    /\ lastResp' = resp
    /\ req' = [req EXCEPT ![s] = Idle]
    /\ UNCHANGED nreq

\* --------------------------------------------- POST /build-conversation
\* the handler has no await: validation, quota check, increment and response
\* are one step
BuildConversation(v, question) ==
    /\ nreq < MaxRequests
    /\ IF question = ""
       THEN /\ AnswerNow(Resp("BC", v, 400))
            /\ UNCHANGED << session, turnHist >>
       ELSE /\ reached' = [reached EXCEPT ![v] = @ + 1]
            /\ bcCalls' = [bcCalls EXCEPT ![v] = @ + 1]
            /\ IF QuotaExceeded(getQuestionCount(session, v))
               THEN /\ AnswerNow(Resp("BC", v, 429))
                    /\ quotaRejected' = [quotaRejected EXCEPT ![v] = @ + 1]
                    /\ UNCHANGED << session, passed, preReads, bcOk >>
               ELSE /\ session' = incrementQuestionCount(session, v)
                    /\ passed' = [passed EXCEPT ![v] = @ + 1]
                    /\ preReads' = [preReads EXCEPT
                                      ![v] = @ \cup {getQuestionCount(session, v)}]
                    /\ bcOk' = [bcOk EXCEPT ![v] = @ + 1]
                    /\ AnswerNow(Resp("BC", v, 200))
                    /\ UNCHANGED quotaRejected
    /\ UNCHANGED << cache, tmpFiles, nextVoice, nextAgent, cloneCalls,
                    agentCalls, cacheHist, committed, jobs >>
    /\ UNCHANGED vs

\* --------------------------------------------- POST /stream-conversation
\* the handler's lookup of the agent after the increment
AgentMissing(st, v) == st[v].agentId = 0

\* up to the await of streamConversation the handler is one step: validation,
\* quota check, increment, agent lookup
StreamConversation(s, v, text) ==
    /\ CanStart(s)
    /\ IF text = ""
       THEN /\ AnswerNow(Resp("SC", v, 400))
            /\ UNCHANGED << session, turnHist >>
       ELSE /\ reached' = [reached EXCEPT ![v] = @ + 1]
            /\ UNCHANGED << bcCalls, bcOk >>
            /\ IF QuotaExceeded(getQuestionCount(session, v))
               THEN /\ AnswerNow(Resp("SC", v, 429))
                    /\ quotaRejected' = [quotaRejected EXCEPT ![v] = @ + 1]
                    /\ UNCHANGED << session, passed, preReads >>
               ELSE /\ session' = incrementQuestionCount(session, v)
                    /\ passed' = [passed EXCEPT ![v] = @ + 1]
                    /\ preReads' = [preReads EXCEPT
                                      ![v] = @ \cup {getQuestionCount(session, v)}]
                    /\ UNCHANGED quotaRejected
                    /\ IF AgentMissing(incrementQuestionCount(session, v), v)
                       THEN AnswerNow(Resp("SC", v, 404))
                       ELSE Suspend(s, [Idle EXCEPT !.pc = "sc_streamConversation",
                                           !.kind = "SC", !.vid = v])
    /\ UNCHANGED << cache, tmpFiles, nextVoice, nextAgent, cloneCalls,
                    agentCalls, cacheHist, committed, jobs >>
    /\ UNCHANGED vs

\* the provider answers or fails
StreamConversationReturns(s, ok) ==
    /\ req[s].pc = "sc_streamConversation"
    /\ Answer(s, Resp("SC", req[s].vid, IF ok THEN 200 ELSE 500))
    /\ UNCHANGED << cache, session, tmpFiles, nextVoice, nextAgent, cloneCalls,
                    agentCalls, cacheHist, committed, turnHist, jobs >>
    /\ UNCHANGED vs

\* ---------------------------------------------- POST /get-context-window
\* the test looking at the length of the transcript only
TranscriptMissing_EmptyOnly(st, v) ==
    st[v].hasTranscript /\ Len(st[v].transcript) = 0

\* the handler's test "transcript not found"
TranscriptMissing(st, v) == ~st[v].hasTranscript

\* a handler serving whatever the cache lookup gave
ContextWindowHit_Any(cached) == TRUE

\* the handler's test of the exact-match cache: an empty text is no hit
ContextWindowHit(cached) == cached # << >>

\* the handler has no await
GetContextWindow(v, pausedTime) ==
    /\ nreq < MaxRequests
    /\ IF pausedTime < 0
       THEN /\ AnswerNow(Resp("GCW", v, 400))
            /\ UNCHANGED session
       ELSE IF ContextWindowHit(getCachedContextWindow(session, v, pausedTime))
       THEN /\ AnswerNow([Resp("GCW", v, 200) EXCEPT
                             !.ctx = getCachedContextWindow(session, v, pausedTime),
                             !.hit = TRUE])
            /\ UNCHANGED session
       ELSE IF TranscriptMissing(session, v)
       THEN /\ AnswerNow(Resp("GCW", v, 404))
            /\ UNCHANGED session
       ELSE /\ session' = cacheContextWindow(session, v, pausedTime,
                              getContextWindow(session[v].transcript, pausedTime,
                                               MAX_CONTEXT_WINDOW_SECONDS))
            /\ AnswerNow([Resp("GCW", v, 200) EXCEPT
                             !.ctx = getContextWindow(session[v].transcript,
                                         pausedTime, MAX_CONTEXT_WINDOW_SECONDS)])
    /\ UNCHANGED << cache, tmpFiles, nextVoice, nextAgent, cloneCalls,
                    agentCalls, cacheHist, committed, turnHist, jobs >>
    /\ UNCHANGED vs

\* ---------------------------------------------------- POST /create-agent
\* the handler without its check of the voice
CreateAgentEarly_NoVoiceCheck(st, v) ==
    IF ~st[v].exists THEN 400
    ELSE IF ~st[v].hasTranscript \/ Len(st[v].transcript) = 0 THEN 400
    ELSE IF st[v].agentId # 0 THEN 200
    ELSE IF getContextWindowForVideo(st, v).text = << >> THEN 404
    ELSE 0

\* what the handler decides before it calls the agent provider:
\* the status of its early response, or 0 when it goes on to createAgent
CreateAgentEarly(st, v) ==
    IF ~st[v].exists THEN 400
    ELSE IF ~st[v].hasTranscript \/ Len(st[v].transcript) = 0 THEN 400
    ELSE IF st[v].agentId # 0 THEN 200
    ELSE IF st[v].voiceId = 0 THEN 404
    ELSE IF getContextWindowForVideo(st, v).text = << >> THEN 404
    ELSE 0

\* getContextWindowForVideo computes its result when called and touches no
\* state, so the await of it is folded into the step that calls it
CreateAgent(s, v, speaker) ==
    /\ CanStart(s)
    /\ IF speaker = ""
       THEN /\ AnswerNow(Resp("CA", v, 400))
            /\ UNCHANGED agentCalls
       ELSE IF CreateAgentEarly(session, v) # 0
       THEN /\ AnswerNow([Resp("CA", v, CreateAgentEarly(session, v)) EXCEPT
                            !.agentId = IF CreateAgentEarly(session, v) = 200
                                        THEN session[v].agentId ELSE 0,
                            !.hit = (CreateAgentEarly(session, v) = 200)])
            /\ UNCHANGED agentCalls
       ELSE /\ agentCalls' = [agentCalls EXCEPT ![v] = @ + 1]
            /\ Suspend(s, [Idle EXCEPT !.pc = "ca_createAgent", !.kind = "CA", !.vid = v,
                              !.voiceId = session[v].voiceId,
                              !.ctx = getContextWindowForVideo(session, v).text])
    /\ UNCHANGED << cache, session, tmpFiles, nextVoice, nextAgent, cloneCalls,
                    cacheHist, committed, turnHist, jobs >>
    /\ UNCHANGED vs

\* the provider returns a new agent, which is memoized, or fails
CreateAgentReturns(s, ok) ==
    /\ req[s].pc = "ca_createAgent"
    /\ IF ok
       THEN /\ session' = setAgentId(session, req[s].vid, nextAgent)
            /\ nextAgent' = nextAgent + 1
            /\ Answer(s, [Resp("CA", req[s].vid, 200) EXCEPT
                             !.agentId = nextAgent])
       ELSE /\ Answer(s, Resp("CA", req[s].vid, 500))
            /\ UNCHANGED << session, nextAgent >>
    /\ UNCHANGED << cache, tmpFiles, nextVoice, cloneCalls, agentCalls,
                    cacheHist, committed, turnHist, jobs >>
    /\ UNCHANGED vs

\* ----------------------------------------------------- POST /clone-voice
\* the entry written with every field of the entry read, the absent ones too
dataToCache_WholeEntry(cachedData, newVoiceId, speakerName) ==
    [f \in EntryFields |->
        CASE f = "voiceId" -> newVoiceId
          [] f = "speakerName" -> speakerName
          [] OTHER -> cachedData[f]]

\* the entry the handler writes: the entry it read, with the new voiceId and
\* the speaker name
dataToCache(cachedData, newVoiceId, speakerName) ==
    [f \in (DOMAIN AsPartial(cachedData)) \cup {"voiceId", "speakerName"} |->
        CASE f = "voiceId" -> newVoiceId
          [] f = "speakerName" -> speakerName
          [] OTHER -> cachedData[f]]

\* the handler's test for a cache hit
CacheHit(cachedData) == cachedData.voiceId # 0

CloneVoice(s, v, speaker) ==
    /\ CanStart(s)
    /\ IF speaker = ""
       THEN AnswerNow(Resp("CV", v, 400))
       ELSE Suspend(s, [Idle EXCEPT !.pc = "cv_getVideoData", !.kind = "CV", !.vid = v,
                           !.afterWrite = committed[v]])
    /\ UNCHANGED << cache, session, tmpFiles, nextVoice, nextAgent, cloneCalls,
                    agentCalls, cacheHist, committed, turnHist, jobs >>
    /\ UNCHANGED vs

\* the cache read returns: cache hit, missing sample, or the call of cloneVoice
CloneVoiceGetVideoDataReturns(s, ok) ==
    /\ req[s].pc = "cv_getVideoData"
    /\ IF ~ok
       THEN /\ Answer(s, Resp("CV", req[s].vid, 500))
            /\ UNCHANGED cloneCalls
       ELSE IF CacheHit(cache[req[s].vid])
       THEN /\ Answer(s, [Resp("CV", req[s].vid, 200) EXCEPT
                             !.voiceId = cache[req[s].vid].voiceId,
                             !.hit = TRUE, !.afterWrite = req[s].afterWrite])
            /\ UNCHANGED cloneCalls
       ELSE IF session[req[s].vid].voiceSamplePath = ""
       THEN /\ Answer(s, Resp("CV", req[s].vid, 404))
            /\ UNCHANGED cloneCalls
       ELSE /\ cloneCalls' = [cloneCalls EXCEPT ![req[s].vid] = @ + 1]
            /\ Goto(s, [req[s] EXCEPT !.pc = "cv_cloneVoice",
                                      !.cached = cache[req[s].vid]])
    /\ UNCHANGED << cache, session, tmpFiles, nextVoice, nextAgent, agentCalls,
                    cacheHist, committed, turnHist, jobs >>
    /\ UNCHANGED vs

\* the provider returns a new voice, or fails
CloneVoiceCloneReturns(s, ok) ==
    /\ req[s].pc = "cv_cloneVoice"
    /\ IF ok
       THEN /\ nextVoice' = nextVoice + 1
            /\ Goto(s, [req[s] EXCEPT !.pc = "cv_setVideoData",
                                      !.voiceId = nextVoice])
       ELSE /\ Answer(s, Resp("CV", req[s].vid, 500))
            /\ UNCHANGED nextVoice
    /\ UNCHANGED << cache, session, tmpFiles, nextAgent, cloneCalls, agentCalls,
                    cacheHist, committed, turnHist, jobs >>
    /\ UNCHANGED vs

\* the cache write returns; the session store is updated and the response sent
CloneVoiceSetVideoDataReturns(s, ok) ==
    /\ req[s].pc = "cv_setVideoData"
    /\ IF ok
       THEN /\ cache' = [cache EXCEPT ![req[s].vid] =
                    Merge(@, dataToCache(req[s].cached, req[s].voiceId, SpeakerName))]
            /\ cacheHist' = [cacheHist EXCEPT ![req[s].vid] = @ \cup {req[s].voiceId}]
            /\ committed' = [committed EXCEPT ![req[s].vid] = TRUE]
            /\ session' = setVoice(session, req[s].vid, req[s].voiceId, SpeakerName)
            /\ Answer(s, [Resp("CV", req[s].vid, 200) EXCEPT
                             !.voiceId = req[s].voiceId,
                             !.afterWrite = req[s].afterWrite,
                             !.raced = (cache[req[s].vid] # req[s].cached)])
       ELSE /\ Answer(s, Resp("CV", req[s].vid, 500))
            /\ UNCHANGED << cache, cacheHist, committed, session >>
    /\ UNCHANGED << tmpFiles, nextVoice, nextAgent, cloneCalls, agentCalls,
                    turnHist, jobs >>
    /\ UNCHANGED vs

\* -------------------------------------------------- POST /instant-context
\* the partial entry the handler writes
InstantContextData(voiceId) == [f \in {"voiceId"} |-> voiceId]

\* the test that takes every voice for missing
VoiceMissing_Always(voiceId) == TRUE

\* the handler's test "voice not cached"
VoiceMissing(voiceId) == voiceId = 0

\* a transient file is named by the request that made it (its slot) and by
\* what it holds; owner 0: the request that made it has been answered
File(s, what) == [owner |-> s, file |-> what]
Disown(files, s) ==
    {f \in files : f.owner # s} \cup {File(0, f.file) : f \in {g \in files : g.owner = s}}

\* the files on disk after the catch block of request s: it removes none
CatchCleanup(files, s) == files

\* the files on disk after cleanup(voiceSamplePath) and cleanup(audioPath)
Cleanup(files, s) == {f \in files : f.owner # s}

InstantContext(s, url) ==
    /\ CanStart(s)
    /\ IF extractVideoId(url) = ""
       THEN AnswerNow(Resp("IC", "", 400))
       ELSE Suspend(s, [Idle EXCEPT !.pc = "ic_getVoiceId", !.kind = "IC", !.vid = extractVideoId(url),
                           !.afterWrite = committed[extractVideoId(url)]])
    /\ UNCHANGED << cache, session, tmpFiles, nextVoice, nextAgent, cloneCalls,
                    agentCalls, cacheHist, committed, turnHist, jobs >>
    /\ UNCHANGED vs

\* the handler's catch block: 500
\* a catch block that logs the error and sends nothing
InstantContextFails_Silent(s) ==
    /\ tmpFiles' = Disown(CatchCleanup(tmpFiles, s), s)
    /\ Goto(s, [req[s] EXCEPT !.pc = "ic_caught"])

\* the catch block of the handler: the error is answered 500
InstantContextFails(s) ==
    /\ tmpFiles' = Disown(CatchCleanup(tmpFiles, s), s)
    /\ Answer(s, Resp("IC", req[s].vid, 500))

\* cacheService.getVoiceId returns; downloadAudioSegment is called
InstantContextGetVoiceIdReturns(s, ok) ==
    /\ req[s].pc = "ic_getVoiceId"
    /\ IF ok
       THEN /\ Goto(s, [req[s] EXCEPT !.pc = "ic_downloadAudioSegment",
                                      !.voiceId = GetVoiceId(cache, req[s].vid)])
            /\ UNCHANGED tmpFiles
       ELSE InstantContextFails(s)
    /\ UNCHANGED << cache, session, nextVoice, nextAgent, cloneCalls, agentCalls,
                    cacheHist, committed, turnHist, jobs >>
    /\ UNCHANGED vs

\* the segment is on disk; transcribeAudio is called
InstantContextDownloadReturns(s, ok) ==
    /\ req[s].pc = "ic_downloadAudioSegment"
    /\ IF ok
       THEN /\ tmpFiles' = tmpFiles \cup {File(s, "audio")}
            /\ Goto(s, [req[s] EXCEPT !.pc = "ic_transcribeAudio"])
       ELSE InstantContextFails(s)
    /\ UNCHANGED << cache, session, nextVoice, nextAgent, cloneCalls, agentCalls,
                    cacheHist, committed, turnHist, jobs >>
    /\ UNCHANGED vs

\* the segment transcript arrives; with a cached voice the handler goes to
\* cleanup(audioPath), without one it calls extractVoiceSample
InstantContextTranscribeReturns(s, ok) ==
    /\ req[s].pc = "ic_transcribeAudio"
    /\ IF ok
       THEN /\ Goto(s, [req[s] EXCEPT
                          !.pc = IF VoiceMissing(req[s].voiceId)
                                 THEN "ic_extractVoiceSample" ELSE "ic_cleanup",
                          !.ctx = JoinText(SegmentTranscript)])
            /\ UNCHANGED tmpFiles
       ELSE InstantContextFails(s)
    /\ UNCHANGED << cache, session, nextVoice, nextAgent, cloneCalls, agentCalls,
                    cacheHist, committed, turnHist, jobs >>
    /\ UNCHANGED vs

\* the voice sample is on disk; cloneVoice is called
InstantContextExtractReturns(s, ok) ==
    /\ req[s].pc = "ic_extractVoiceSample"
    /\ IF ok
       THEN /\ tmpFiles' = tmpFiles \cup {File(s, "sample")}
            /\ cloneCalls' = [cloneCalls EXCEPT ![req[s].vid] = @ + 1]
            /\ Goto(s, [req[s] EXCEPT !.pc = "ic_cloneVoice"])
       ELSE /\ InstantContextFails(s)
            /\ UNCHANGED cloneCalls
    /\ UNCHANGED << cache, session, nextVoice, nextAgent, agentCalls,
                    cacheHist, committed, turnHist, jobs >>
    /\ UNCHANGED vs

\* the provider returns a new voice; cacheService.setVideoData is called
InstantContextCloneReturns(s, ok) ==
    /\ req[s].pc = "ic_cloneVoice"
    /\ IF ok
       THEN /\ nextVoice' = nextVoice + 1
            /\ Goto(s, [req[s] EXCEPT !.pc = "ic_setVideoData",
                                      !.voiceId = nextVoice])
            /\ UNCHANGED tmpFiles
       ELSE /\ InstantContextFails(s)
            /\ UNCHANGED nextVoice
    /\ UNCHANGED << cache, session, nextAgent, cloneCalls, agentCalls,
                    cacheHist, committed, turnHist, jobs >>
    /\ UNCHANGED vs

\* the cache write returns; cleanup(voiceSamplePath) is called
InstantContextSetVideoDataReturns(s, ok) ==
    /\ req[s].pc = "ic_setVideoData"
    /\ IF ok
       THEN /\ cache' = [cache EXCEPT ![req[s].vid] =
                            Merge(@, InstantContextData(req[s].voiceId))]
            /\ cacheHist' = [cacheHist EXCEPT ![req[s].vid] = @ \cup {req[s].voiceId}]
            /\ committed' = [committed EXCEPT ![req[s].vid] = TRUE]
            /\ Goto(s, [req[s] EXCEPT !.pc = "ic_cleanup"])
            /\ UNCHANGED tmpFiles
       ELSE /\ InstantContextFails(s)
            /\ UNCHANGED << cache, cacheHist, committed >>
    /\ UNCHANGED << session, nextVoice, nextAgent, cloneCalls, agentCalls,
                    turnHist, jobs >>
    /\ UNCHANGED vs

\* cleanup of the sample (when there is one) and of the segment; the files
\* are private to the request, so the two cleanups are one step; response
InstantContextCleanupReturns(s) ==
    /\ req[s].pc = "ic_cleanup"
    /\ tmpFiles' = Disown(Cleanup(tmpFiles, s), s)
    /\ Answer(s, [Resp("IC", req[s].vid, 200) EXCEPT
                     !.voiceId = req[s].voiceId, !.ctx = req[s].ctx,
                     !.afterWrite = req[s].afterWrite])
    /\ UNCHANGED << cache, session, nextVoice, nextAgent, cloneCalls, agentCalls,
                    cacheHist, committed, turnHist, jobs >>
    /\ UNCHANGED vs

\* --------------------------------------------------- POST /prepare-context
\* videoQueue.add touches the queue only; the handler is one step
\* a handler that takes no reference for a video
InvalidReference_Any(videoId) == TRUE

\* the handler's test "Invalid YouTube URL"
InvalidReference(videoId) == videoId = ""

PrepareContext(url) ==
    /\ nreq < MaxRequests
    /\ IF InvalidReference(extractVideoId(url))
       THEN /\ AnswerNow(Resp("PC", "", 400))
            /\ UNCHANGED jobs
       ELSE /\ Len(jobs) < MaxJobs
            /\ jobs' = Append(jobs, [videoId |-> extractVideoId(url),
                                     state |-> "queued", progress |-> 0,
                                     voiceId |-> 0, returnvalue |-> "",
                                     failedReason |-> "", lockedBy |-> {}])
            /\ AnswerNow([Resp("PC", extractVideoId(url), 202) EXCEPT
                             !.jobId = Len(jobs) + 1])
    /\ UNCHANGED << cache, session, tmpFiles, nextVoice, nextAgent, cloneCalls,
                    agentCalls, cacheHist, committed, turnHist >>
    /\ UNCHANGED vs

\* ------------------------------------------------------ GET /status/:jobId
\* a handler that no longer finds the jobs that are through
JobNotFound_Finished(q, jobId) ==
    \/ jobId \notin DOMAIN q
    \/ q[jobId].state \in {"completed", "failed"}

\* videoQueue.getJob(jobId) gave no job
JobNotFound(q, jobId) == jobId \notin DOMAIN q

\* the job's state, its return value and the response follow the lookup
\* without a step of another flow that changes the job in between
Status(jobId) ==
    /\ nreq < MaxRequests
    /\ IF JobNotFound(jobs, jobId)
       THEN AnswerNow([Resp("ST", "", 404) EXCEPT !.jobId = jobId])
       ELSE AnswerNow([Resp("ST", jobs[jobId].videoId, 200) EXCEPT
                          !.jobId = jobId, !.state = jobs[jobId].state,
                          !.returnValue = jobs[jobId].returnvalue])
    /\ UNCHANGED << cache, session, tmpFiles, nextVoice, nextAgent, cloneCalls,
                    agentCalls, cacheHist, committed, turnHist, jobs >>
    /\ UNCHANGED vs

\* ------------------------------------------------------------ the Worker
\* The workers consuming the queue: "server" is a worker running inside the
\* request-handling process, "worker" the process started by the script
\* "worker" of package.json.  The Session Store is the module memoryService
\* of a process: only the worker inside the request-handling process writes
\* the Session Store the handlers read; the Cache Store is shared by all.
Workers == {"server", "worker"}

\* the job is processed inside the request-handling process
InRequestProcess(job) == "server" \in job.lockedBy

\* a queue handing out a job that a worker is already processing
Pickable_Active(job) == job.state \in {"queued", "active"}

\* the job is waiting for a worker
Pickable(job) == job.state = "queued"

\* queued -> active: a worker takes the job and holds its lock
WorkerPick(j, w) ==
    /\ j \in DOMAIN jobs
    /\ Pickable(jobs[j])
    /\ jobs' = [jobs EXCEPT ![j].state = "active", ![j].lockedBy = @ \cup {w}]
    /\ UNCHANGED << cache, session, req, nreq, lastResp, tmpFiles, nextVoice,
                    nextAgent, cloneCalls, agentCalls, cacheHist, committed,
                    turnHist >>
    /\ UNCHANGED vs

\* download, transcription and sample extraction succeed: the transcript and
\* the sample path are in the Session Store
WorkerDerive(j, transcript) ==
    /\ j \in DOMAIN jobs
    /\ jobs[j].state = "active" /\ jobs[j].progress = 0
    /\ IF InRequestProcess(jobs[j])
       THEN session' = [session EXCEPT ![jobs[j].videoId].exists = TRUE,
                                      ![jobs[j].videoId].hasTranscript = TRUE,
                                      ![jobs[j].videoId].transcript = transcript,
                                      ![jobs[j].videoId].voiceSamplePath = SamplePath]
       ELSE UNCHANGED session
    /\ jobs' = [jobs EXCEPT ![j].progress = 50]
    /\ UNCHANGED << cache, req, nreq, lastResp, tmpFiles, nextVoice,
                    nextAgent, cloneCalls, agentCalls, cacheHist, committed,
                    turnHist >>
    /\ UNCHANGED vs

\* the cloning stage: the cached voice, or a new one from the provider
WorkerClone(j) ==
    /\ j \in DOMAIN jobs
    /\ jobs[j].state = "active" /\ jobs[j].progress = 50
    /\ IF cache[jobs[j].videoId].voiceId # 0
       THEN /\ jobs' = [jobs EXCEPT ![j].progress = 75,
                                    ![j].voiceId = cache[jobs[j].videoId].voiceId]
            /\ UNCHANGED nextVoice
       ELSE /\ jobs' = [jobs EXCEPT ![j].progress = 75, ![j].voiceId = nextVoice]
            /\ nextVoice' = nextVoice + 1
    /\ UNCHANGED << cache, session, req, nreq, lastResp, tmpFiles,
                    nextAgent, cloneCalls, agentCalls, cacheHist, committed,
                    turnHist >>
    /\ UNCHANGED vs

\* the partial entry the Worker merges when its pipeline is through
WorkerData(voiceId) ==
    [f \in {"voiceId", "voiceSamplePath"} |->
        IF f = "voiceId" THEN voiceId ELSE SamplePath]

\* the voice is merged into the Cache Store and set in the Session Store;
\* active -> completed
WorkerComplete(j) ==
    /\ j \in DOMAIN jobs
    /\ jobs[j].state = "active" /\ jobs[j].progress = 75
    /\ cache' = [cache EXCEPT ![jobs[j].videoId] =
                    Merge(@, WorkerData(jobs[j].voiceId))]
    /\ cacheHist' = [cacheHist EXCEPT ![jobs[j].videoId] = @ \cup {jobs[j].voiceId}]
    /\ IF InRequestProcess(jobs[j])
       THEN session' = [session EXCEPT ![jobs[j].videoId].voiceId = jobs[j].voiceId]
       ELSE UNCHANGED session
    /\ jobs' = [jobs EXCEPT ![j].state = "completed", ![j].progress = 100,
                            ![j].returnvalue = "done", ![j].lockedBy = {}]
    /\ UNCHANGED << req, nreq, lastResp, tmpFiles, nextVoice, nextAgent,
                    cloneCalls, agentCalls, committed, turnHist >>
    /\ UNCHANGED vs

\* a stage fails: active -> failed; the queue records the error message as
\* the job's reason of failure, its return value stays unset
WorkerFail(j) ==
    /\ j \in DOMAIN jobs
    /\ jobs[j].state = "active"
    /\ jobs' = [jobs EXCEPT ![j].state = "failed", ![j].failedReason = "error",
                            ![j].lockedBy = {}]
    /\ UNCHANGED << cache, session, req, nreq, lastResp, tmpFiles, nextVoice,
                    nextAgent, cloneCalls, agentCalls, cacheHist, committed,
                    turnHist >>
    /\ UNCHANGED vs

\* ------------------------------------------------------- specifications
\* the durable lane: submission of a job and the Worker's steps
NextWorker ==
    \/ \E u \in Urls : PrepareContext(u)
    \/ \E j \in 1..MaxJobs, w \in Workers : WorkerPick(j, w)
    \/ \E j \in 1..MaxJobs, t \in Transcripts : WorkerDerive(j, t)
    \/ \E j \in 1..MaxJobs : WorkerClone(j)
    \/ \E j \in 1..MaxJobs : WorkerComplete(j)
    \/ \E j \in 1..MaxJobs : WorkerFail(j)

\* the cloning requests
NextCloneRequests ==
    \/ \E s \in Slots, v \in Videos, n \in {SpeakerName, ""} : CloneVoice(s, v, n)
    \/ \E s \in Slots, ok \in BOOLEAN : CloneVoiceGetVideoDataReturns(s, ok)
    \/ \E s \in Slots, ok \in BOOLEAN : CloneVoiceCloneReturns(s, ok)
    \/ \E s \in Slots, ok \in BOOLEAN : CloneVoiceSetVideoDataReturns(s, ok)
    \/ \E s \in Slots, u \in Urls : InstantContext(s, u)
    \/ \E s \in Slots, ok \in BOOLEAN : InstantContextGetVoiceIdReturns(s, ok)
    \/ \E s \in Slots, ok \in BOOLEAN : InstantContextDownloadReturns(s, ok)
    \/ \E s \in Slots, ok \in BOOLEAN : InstantContextTranscribeReturns(s, ok)
    \/ \E s \in Slots, ok \in BOOLEAN : InstantContextExtractReturns(s, ok)
    \/ \E s \in Slots, ok \in BOOLEAN : InstantContextCloneReturns(s, ok)
    \/ \E s \in Slots, ok \in BOOLEAN : InstantContextSetVideoDataReturns(s, ok)
    \/ \E s \in Slots : InstantContextCleanupReturns(s)

\* the conversation requests
NextTalkRequests ==
    \/ \E v \in Videos, q \in Texts : BuildConversation(v, q)
    \/ \E s \in Slots, v \in Videos, t \in Texts : StreamConversation(s, v, t)
    \/ \E s \in Slots, ok \in BOOLEAN : StreamConversationReturns(s, ok)
    \/ \E v \in Videos, p \in PausedInputs : GetContextWindow(v, p)
    \/ \E s \in Slots, v \in Videos, n \in {SpeakerName, ""} : CreateAgent(s, v, n)
    \/ \E s \in Slots, ok \in BOOLEAN : CreateAgentReturns(s, ok)

\* the router with its clients sending cloning requests
NextClone == NextCloneRequests \/ NextWorker
SpecClone == Init /\ [][NextClone]_vars

\* the router with its clients sending conversation requests
NextTalk == NextTalkRequests \/ NextWorker
SpecTalk == Init /\ [][NextTalk]_vars

\* the requests that await a provider (download, transcription, cloning,
\* agent), with the worker inside the request-handling process, whose jobs
\* supply the transcript and the voice that /create-agent asks for
NextProviders ==
    \/ NextCloneRequests
    \/ \E s \in Slots, v \in Videos, t \in Texts : StreamConversation(s, v, t)
    \/ \E s \in Slots, ok \in BOOLEAN : StreamConversationReturns(s, ok)
    \/ \E s \in Slots, v \in Videos, n \in {SpeakerName, ""} : CreateAgent(s, v, n)
    \/ \E s \in Slots, ok \in BOOLEAN : CreateAgentReturns(s, ok)
    \/ \E u \in Urls : PrepareContext(u)
    \/ \E j \in 1..MaxJobs : WorkerPick(j, "server")
    \/ \E j \in 1..MaxJobs : WorkerDerive(j, FullTranscript)
    \/ \E j \in 1..MaxJobs : WorkerClone(j)
    \/ \E j \in 1..MaxJobs : WorkerComplete(j)

\* the awaited call of the request in slot s settles: it returns, or it
\* throws (an error of the provider, or the timeout that bounds the call)
Settles(s) ==
    \/ \E ok \in BOOLEAN : CloneVoiceGetVideoDataReturns(s, ok)
    \/ \E ok \in BOOLEAN : CloneVoiceCloneReturns(s, ok)
    \/ \E ok \in BOOLEAN : CloneVoiceSetVideoDataReturns(s, ok)
    \/ \E ok \in BOOLEAN : InstantContextGetVoiceIdReturns(s, ok)
    \/ \E ok \in BOOLEAN : InstantContextDownloadReturns(s, ok)
    \/ \E ok \in BOOLEAN : InstantContextTranscribeReturns(s, ok)
    \/ \E ok \in BOOLEAN : InstantContextExtractReturns(s, ok)
    \/ \E ok \in BOOLEAN : InstantContextCloneReturns(s, ok)
    \/ \E ok \in BOOLEAN : InstantContextSetVideoDataReturns(s, ok)
    \/ InstantContextCleanupReturns(s)
    \/ \E ok \in BOOLEAN : StreamConversationReturns(s, ok)
    \/ \E ok \in BOOLEAN : CreateAgentReturns(s, ok)

\* every awaited call settles and the event loop runs the continuation of
\* every settled call; nothing is assumed of the clients or of the Worker
SpecProviders ==
    Init /\ [][NextProviders]_vars /\ \A s \in Slots : WF_vars(Settles(s))

\* the durable lane with its clients polling the jobs
NextJobs ==
    \/ NextWorker
    \/ \E j \in 1..(MaxJobs + 1) : Status(j)

SpecJobs == Init /\ [][NextJobs]_vars

\* ------------------------------------------- the VoiceStream client
\* Every callback of the object runs to its end before another one starts;
\* startRecording is suspended once, at its getUserMedia request.

\* stopRecording()
stopRecording(c) ==
    LET r == IF c.mediaRecorder # 0 /\ c.isRecording
             THEN [c EXCEPT !.recorders = @ \ {c.mediaRecorder},
                            !.isRecording = FALSE]
             ELSE c
    IN  IF r.stream # 0
        THEN [r EXCEPT !.liveStreams = @ \ {r.stream}, !.stream = 0]
        ELSE r

\* startRecording() up to its await: the getUserMedia request is made
startRecording(c) ==
    IF c.muted THEN c
    ELSE [c EXCEPT !.pendingGum = @ + 1, !.captures = @ + 1]

\* the call of startRecording stays within the captures of a run
CanStartRecording(c) == c.muted \/ c.captures < MaxCaptures

\* a name for the capture getUserMedia grants
NewCapture(c) ==
    CHOOSE i \in 1..MaxCaptures : i \notin c.liveStreams \cup c.recorders

\* connect(): a WebSocket is created, for the first time or after a close
Connect ==
    /\ vs.websocket \in {"none", "closed"}
    /\ vs' = [vs EXCEPT !.websocket = "connecting"]
    /\ UNCHANGED serverVars

\* websocket.onopen
OnOpen ==
    /\ vs.websocket = "connecting"
    /\ CanStartRecording(vs)
    /\ vs' = startRecording([vs EXCEPT !.websocket = "open"])
    /\ UNCHANGED serverVars

\* websocket.onclose: the peer or the network closed the socket, the
\* connection failed, or the close asked by disconnect() is through
OnClose ==
    /\ vs.websocket \in {"connecting", "open", "closing"}
    /\ vs' = stopRecording([vs EXCEPT !.websocket = "closed"])
    /\ UNCHANGED serverVars

\* getUserMedia grants a capture: startRecording goes on from its await to
\* its end, whatever happened to the object in between
GetUserMediaResolves ==
    /\ vs.pendingGum > 0
    /\ vs' = [vs EXCEPT !.pendingGum = @ - 1,
                        !.stream = NewCapture(vs),
                        !.liveStreams = @ \cup {NewCapture(vs)},
                        !.mediaRecorder = NewCapture(vs),
                        !.recorders = @ \cup {NewCapture(vs)},
                        !.isRecording = TRUE]
    /\ UNCHANGED serverVars

\* getUserMedia refuses: the catch of startRecording emits the error
GetUserMediaRejects ==
    /\ vs.pendingGum > 0
    /\ vs' = [vs EXCEPT !.pendingGum = @ - 1]
    /\ UNCHANGED serverVars

\* sendAudioChunk(): the read of the chunk is started if the socket is open
sendAudioChunk(c) ==
    IF c.websocket = "open" THEN [c EXCEPT !.reads = @ + 1] ELSE c

\* mediaRecorder.ondataavailable of a recorder that is recording
OnDataAvailable(r) ==
    /\ r \in vs.recorders
    /\ vs.chunks < MaxChunks
    /\ vs' = IF ~vs.muted
             THEN sendAudioChunk([vs EXCEPT !.chunks = @ + 1])
             ELSE [vs EXCEPT !.chunks = @ + 1]
    /\ UNCHANGED serverVars

\* reader.onload of sendAudioChunk: the message of type audio is handed to
\* the socket, which sends it when it is open
OnReaderLoad ==
    /\ vs.reads > 0
    /\ vs' = IF vs.websocket = "open"
             THEN [vs EXCEPT !.reads = @ - 1, !.audioSent = @ + 1]
             ELSE [vs EXCEPT !.reads = @ - 1]
    /\ UNCHANGED serverVars

\* mute()
Mute ==
    /\ vs' = IF vs.isRecording
             THEN stopRecording([vs EXCEPT !.muted = TRUE])
             ELSE [vs EXCEPT !.muted = TRUE]
    /\ UNCHANGED serverVars

\* unmute()
Unmute ==
    /\ vs.websocket = "open" => vs.captures < MaxCaptures
    /\ vs' = IF vs.websocket = "open"
             THEN startRecording([vs EXCEPT !.muted = FALSE])
             ELSE [vs EXCEPT !.muted = FALSE]
    /\ UNCHANGED serverVars

\* disconnect(): websocket.close() starts the closing handshake
Disconnect ==
    /\ vs' = [stopRecording(vs) EXCEPT
                 !.websocket = IF @ \in {"connecting", "open"}
                               THEN "closing" ELSE @]
    /\ UNCHANGED serverVars

NextVoiceStream ==
    \/ Connect
    \/ OnOpen
    \/ OnClose
    \/ GetUserMediaResolves
    \/ GetUserMediaRejects
    \/ \E r \in 1..MaxCaptures : OnDataAvailable(r)
    \/ OnReaderLoad
    \/ Mute
    \/ Unmute
    \/ Disconnect

SpecVoiceStream == Init /\ [][NextVoiceStream]_vars

\* the router with all its routes
Next ==
    \/ NextCloneRequests
    \/ NextTalkRequests
    \/ NextWorker
    \/ \E j \in 1..(MaxJobs + 1) : Status(j)
    \/ NextVoiceStream

Spec == Init /\ [][Next]_vars


\* ------------------------------------------------------------------ claims
Min(a, b) == IF a < b THEN a ELSE b

\* C1: of the turns (/build-conversation and /stream-conversation) that reach
\* the quota check of a video, exactly the first MAX_QUESTIONS_PER_VIDEO pass
\* and every other one is answered 429, whatever the interleaving; the
\* question count never exceeds the maximum and no two passing turns read the
\* same count before incrementing it.
C1_QuotaLinearized ==
    \A v \in Videos :
        /\ passed[v] = Min(reached[v], MAX_QUESTIONS_PER_VIDEO)
        /\ quotaRejected[v] = reached[v] - passed[v]
        /\ session[v].questionCount <= MAX_QUESTIONS_PER_VIDEO
        /\ Cardinality(preReads[v]) = passed[v]

\* turns of both routes have used the quota up and one more was answered 429
C1_Witness ==
    \E v \in Videos :
        /\ passed[v] = MAX_QUESTIONS_PER_VIDEO
        /\ quotaRejected[v] >= 1
        /\ bcCalls[v] \in 1..(reached[v] - 1)

\* C4 as claimed: createAgent is invoked at most once per video.
C4_CreateAgentAtMostOnce == \A v \in Videos : agentCalls[v] <= 1

\* C5 as claimed: a turn that is rejected (400, 429 or 404) leaves the
\* question count of its video unchanged.
C5_RejectedTurnLeavesCount ==
    [][\A v \in Videos :
          (/\ lastResp'.n # lastResp.n
           /\ lastResp'.kind \in {"BC", "SC"}
           /\ lastResp'.vid = v
           /\ lastResp'.status \in {400, 404, 429})
          => session'[v].questionCount = session[v].questionCount]_vars

\* C7: as long as the only turns of a video are /build-conversation calls with
\* valid bodies (the handler has no await, so the calls run one after the
\* other), the first MAX_QUESTIONS_PER_VIDEO of them are answered 200 and
\* every later one 429.
C7_SequentialBuildConversation ==
    \A v \in Videos :
        reached[v] = bcCalls[v] =>
            /\ bcOk[v] = Min(bcCalls[v], MAX_QUESTIONS_PER_VIDEO)
            /\ quotaRejected[v] = bcCalls[v] - bcOk[v]

\* MAX_QUESTIONS_PER_VIDEO + 1 calls were made and the last was answered 429
C7_Witness ==
    /\ lastResp.kind = "BC" /\ lastResp.status = 429
    /\ bcCalls[lastResp.vid] = MAX_QUESTIONS_PER_VIDEO + 1
    /\ reached[lastResp.vid] = bcCalls[lastResp.vid]
    /\ bcOk[lastResp.vid] = MAX_QUESTIONS_PER_VIDEO

\* a prerequisite of /create-agent is missing in the Session Store
TranscriptAbsent(v) == ~session[v].hasTranscript \/ Len(session[v].transcript) = 0
PrerequisiteMissing(v) == TranscriptAbsent(v) \/ session[v].voiceId = 0

\* C9 as claimed: a /create-agent request (with both parameters) that finds a
\* prerequisite missing is answered 400, invokes no createAgent and sets no
\* agentId.
C9_MissingPrerequisite400 ==
    [][\A s \in Slots, v \in Videos :
          CreateAgent(s, v, SpeakerName) /\ PrerequisiteMissing(v)
          => /\ lastResp'.n # lastResp.n
             /\ lastResp'.status = 400
             /\ agentCalls' = agentCalls
             /\ session' = session]_vars

\* C9 amended: such a request is answered 400 when the transcript is missing
\* or empty and 404 when the transcript is there but the voiceId is not; in
\* both cases it invokes no createAgent and sets no agentId.
C9_MissingPrerequisiteRejected ==
    [][\A s \in Slots, v \in Videos :
          CreateAgent(s, v, SpeakerName) /\ PrerequisiteMissing(v)
          => /\ lastResp'.n # lastResp.n
             /\ lastResp'.status = IF TranscriptAbsent(v) THEN 400 ELSE 404
             /\ agentCalls' = agentCalls
             /\ session' = session]_vars

\* a request was answered 404 because the voice is missing
C9_Witness ==
    /\ lastResp.kind = "CA" /\ lastResp.status = 404
    /\ ~TranscriptAbsent(lastResp.vid)
    /\ session[lastResp.vid].voiceId = 0
    /\ agentCalls[lastResp.vid] = 0

\* C10: a /get-context-window request (with a valid body) received while the
\* Session Store knows no transcript of the video is answered 404: no context
\* window is served, from the exact-match cache or otherwise.
C10_NoTranscript404 ==
    [][\A v \in Videos, p \in PausedTimes :
          GetContextWindow(v, p) /\ ~session[v].hasTranscript
          => /\ lastResp'.n # lastResp.n
             /\ lastResp'.status = 404
             /\ ~lastResp'.hit
             /\ lastResp'.ctx = << >>]_vars

\* such a request was answered 404
C10_Witness ==
    /\ lastResp.kind = "GCW" /\ lastResp.status = 404
    /\ ~session[lastResp.vid].hasTranscript

\* C2 as claimed: the request handlers invoke cloneVoice at most once per video.
C2_CloneAtMostOnce == \A v \in Videos : cloneCalls[v] <= 1

\* the counters of a request that has called, or is about to be answered
\* after having called, the cloning provider
CloningPcs == {"ic_extractVoiceSample", "ic_cloneVoice", "ic_setVideoData",
               "cv_cloneVoice", "cv_setVideoData"}

\* C3: a clone request received after a clone request of the same video has
\* written its voiceId to the cache never gets to the cloning provider, and
\* the voiceId of its 200 response is one the cache has held.
C3_CacheHitAfterWrite ==
    /\ \A s \in Slots : req[s].afterWrite => req[s].pc \notin CloningPcs
    /\ (lastResp.afterWrite /\ lastResp.status = 200)
          => lastResp.voiceId \in cacheHist[lastResp.vid]

\* such a request was answered 200
C3_Witness ==
    /\ lastResp.afterWrite /\ lastResp.status = 200
    /\ lastResp.kind \in {"IC", "CV"}
    /\ lastResp.voiceId = cache[lastResp.vid].voiceId

\* C6 as claimed: the transient files of an /instant-context request are
\* removed by the time it is answered.
C6_TransientFilesRemoved == \A f \in tmpFiles : f.owner # 0

\* C8: the cache write of /instant-context changes no field but voiceId and
\* the cache write of /clone-voice no field but voiceId and speakerName,
\* whatever has been written to the entry since the request read it.
C8_WritesAreMerges ==
    [][\A s \in Slots :
          /\ InstantContextSetVideoDataReturns(s, TRUE)
                => \A f \in EntryFields \ {"voiceId"} :
                       cache'[req[s].vid][f] = cache[req[s].vid][f]
          /\ CloneVoiceSetVideoDataReturns(s, TRUE)
                => \A f \in EntryFields \ {"voiceId", "speakerName"} :
                       cache'[req[s].vid][f] = cache[req[s].vid][f]]_vars

\* a /clone-voice request has written an entry that had changed since the
\* request read it, and the field written in between is still there
C8_Witness ==
    /\ lastResp.kind = "CV" /\ lastResp.raced
    /\ cache[lastResp.vid].voiceSamplePath = SamplePath
    /\ cache[lastResp.vid].voiceId = lastResp.voiceId

\* C11 as claimed: once a job submitted by /prepare-context for a video is
\* completed, a /get-context-window request for that video (with a valid
\* body) finds a transcript: it is answered 200, not 404.
C11_CompletedJobServesContext ==
    [][\A v \in Videos, p \in PausedTimes :
          /\ GetContextWindow(v, p)
          /\ \E j \in DOMAIN jobs : /\ jobs[j].videoId = v
                                    /\ jobs[j].state = "completed"
          => lastResp'.status = 200]_vars

\* C12: a job is created queued and its state changes only along
\* queued -> active -> completed or queued -> active -> failed (a completed
\* or failed job never changes state again), and at no time do two workers
\* hold the same job: a job is held by exactly one worker while it is active
\* and by none otherwise.
C12_JobStateMachine ==
    [][\A j \in DOMAIN jobs' :
          /\ j \notin DOMAIN jobs => jobs'[j].state = "queued"
          /\ j \in DOMAIN jobs /\ jobs'[j].state # jobs[j].state
             => << jobs[j].state, jobs'[j].state >> \in
                    { << "queued", "active" >>, << "active", "completed" >>,
                      << "active", "failed" >> }
          /\ Cardinality(jobs'[j].lockedBy) <= 1
          /\ jobs'[j].lockedBy # {} <=> jobs'[j].state = "active"]_vars

\* one job went all the way to completed, another one to failed
C12_Witness ==
    \E j, k \in DOMAIN jobs : /\ jobs[j].state = "completed"
                              /\ jobs[k].state = "failed"

\* C13 as claimed: a /status/:jobId request for a job that ended in state
\* failed is answered 200 with the state failed and with the job's error
\* message in the returned result.
C13_FailedJobReportsError ==
    [][\A j \in DOMAIN jobs :
          Status(j) /\ jobs[j].state = "failed"
          => /\ lastResp'.status = 200
             /\ lastResp'.state = "failed"
             /\ lastResp'.returnValue = jobs[j].failedReason]_vars

\* C14: /status/:jobId is answered 404 exactly when no job with that id was
\* ever created, and otherwise 200 with the job's current state; the ids of
\* the jobs never disappear from the queue, and every jobId returned by
\* /prepare-context is the id of a job of the queue.
C14_StatusFindsEveryJob ==
    [][/\ \A j \in 1..(MaxJobs + 1) :
             Status(j)
             => /\ lastResp'.status = 404 <=> j \notin DOMAIN jobs
                /\ j \in DOMAIN jobs => /\ lastResp'.status = 200
                                        /\ lastResp'.jobId = j
                                        /\ lastResp'.state = jobs[j].state
       /\ DOMAIN jobs \subseteq DOMAIN jobs'
       /\ lastResp'.n # lastResp.n /\ lastResp'.kind = "PC"
             /\ lastResp'.status = 202
          => lastResp'.jobId \in DOMAIN jobs']_vars

\* a job that is through was polled and found
C14_Witness ==
    /\ lastResp.kind = "ST" /\ lastResp.status = 200
    /\ lastResp.state \in {"completed", "failed"}
    /\ lastResp.jobId \in DOMAIN jobs

\* C17: a /prepare-context request whose URL yields a video id appends
\* exactly one job to the queue, queued, for that video and with an id that
\* no job had before, and is answered 202 with that id, whatever jobs the
\* queue and whatever voice the Cache Store already hold for the video; a
\* request whose URL yields no video id is answered 400 and leaves the queue
\* as it was.
C17_OneFreshJobPerSubmission ==
    [][\A u \in Urls :
          PrepareContext(u)
          => IF extractVideoId(u) # ""
             THEN /\ Len(jobs') = Len(jobs) + 1
                  /\ \A j \in DOMAIN jobs : jobs'[j] = jobs[j]
                  /\ jobs'[Len(jobs')].videoId = extractVideoId(u)
                  /\ jobs'[Len(jobs')].state = "queued"
                  /\ lastResp'.status = 202
                  /\ lastResp'.jobId = Len(jobs')
                  /\ lastResp'.jobId \notin DOMAIN jobs
             ELSE /\ lastResp'.status = 400
                  /\ jobs' = jobs]_vars

\* a second job was enqueued for a video that already had a completed job
\* and a cached voice
C17_Witness ==
    /\ lastResp.kind = "PC" /\ lastResp.status = 202 /\ lastResp.jobId = 2
    /\ Len(jobs) = 2
    /\ jobs[1].videoId = jobs[2].videoId
    /\ jobs[1].state = "completed"
    /\ jobs[2].state = "queued"
    /\ cache[jobs[2].videoId].voiceId # 0

\* C18 as claimed: the agentId memoized for a video in the Session Store is
\* never replaced by another one, and every /create-agent response that
\* returns an agent_id returns the memoized one; so all the /create-agent
\* responses of a video carry the same agent_id, whatever the interleaving.
C18_AgentIdStable ==
    [][\A v \in Videos :
          /\ session[v].agentId # 0 => session'[v].agentId = session[v].agentId
          /\ /\ lastResp'.n # lastResp.n
             /\ lastResp'.kind = "CA" /\ lastResp'.status = 200
             /\ lastResp'.vid = v
             => lastResp'.agentId = session'[v].agentId]_vars

C15_ClosedSocketHoldsNoCapture ==
    vs.websocket = "closed"
    => /\ vs.stream = 0
       /\ ~vs.isRecording
       /\ vs.liveStreams = {}
       /\ vs.recorders = {}

\* C19 as claimed: mute() and unmute() leave the WebSocket as it is, and no
\* message of type audio is sent while the object is muted, that is from a
\* mute() to the next unmute().
C19_MuteSilencesAudio ==
    [][/\ Mute \/ Unmute => vs'.websocket = vs.websocket
       /\ vs'.audioSent # vs.audioSent => ~vs.muted]_vars

\* C21 as claimed: once the Cache Store holds a voiceId for a video it is
\* never replaced by another one, and every clone request (/clone-voice or
\* /instant-context) that returns a voiceId returns the one the Cache Store
\* holds; so the voiceId a clone request returned is the one every later
\* read of the cache returns, whatever the interleaving.
C21_VoiceIdStable ==
    [][\A v \in Videos :
          /\ cache[v].voiceId # 0 => cache'[v].voiceId = cache[v].voiceId
          /\ /\ lastResp'.n # lastResp.n
             /\ lastResp'.kind \in {"CV", "IC"} /\ lastResp'.status = 200
             /\ lastResp'.vid = v /\ lastResp'.voiceId # 0
             => lastResp'.voiceId = cache'[v].voiceId]_vars

\* C22 as claimed: in every state with no request in flight, a voiceId the
\* Session Store holds for a video is the voiceId the Cache Store holds for
\* that video.
C22_SessionVoiceIsCacheVoice ==
    (\A s \in Slots : req[s].pc = "idle")
    => \A v \in Videos :
          session[v].voiceId # 0 => cache[v].voiceId = session[v].voiceId

\* C23 as claimed: the VoiceStream object holds at most one microphone
\* capture at any time: every capture whose tracks are not stopped is the
\* one this.stream refers to, and every recorder that is recording is the
\* one this.mediaRecorder refers to.
C23_AtMostOneCapture ==
    /\ vs.liveStreams \subseteq {vs.stream}
    /\ vs.recorders \subseteq {vs.mediaRecorder}
    /\ Cardinality(vs.liveStreams) <= 1
    /\ Cardinality(vs.recorders) <= 1

====
